---- MODULE Spec2Model ----
(***************************************************************************)
(* Osito: the conversational turn pipeline of src/osito.py.                *)
(*                                                                         *)
(* A text is a sequence of Unicode codepoints (a Python str).  The Python  *)
(* value None is the one-element sequence <<-1>>, which is no text.        *)
(***************************************************************************)
EXTENDS Integers, Sequences, FiniteSets, TLC

(***************************************************************************)
(* Bounds of the model.                                                    *)
(***************************************************************************)
\* number of loop iterations (prompts answered) explored by Spec
MaxTurns == 5
\* number of leaked temporary files after which speak is only explored succeeding
MaxLeaked == 1
\* number of pieces a raw backend reply is assembled from in SpecSanitize
MaxReplyPieces == 3
\* number of pieces a raw transcript is assembled from in SpecTranscribe
MaxTranscriptPieces == 3

(***************************************************************************)
(* Configuration (src/osito.py:29-67) and the fixed utterances.            *)
(***************************************************************************)
MAX_HISTORY_TURNS == 4

None == <<-1>>

\* "Hola! Soy Osito, tu amigo! Como te llamas?"
greeting == <<72,111,108,97,33,32,83,111,121,32,79,115,105,116,111,44,32,116,117,32,97,109,105,103,111,33,32,67,111,109,111,32,116,101,32,108,108,97,109,97,115,63>>
\* "Adios amigo! Hasta pronto!"
bye == <<65,100,105,111,115,32,97,109,105,103,111,33,32,72,97,115,116,97,32,112,114,111,110,116,111,33>>
\* "Hmm, solo entiendo espanol e ingles. Try again!"
msg_unsupported == <<72,109,109,44,32,115,111,108,111,32,101,110,116,105,101,110,100,111,32,101,115,112,97,110,111,108,32,101,32,105,110,103,108,101,115,46,32,84,114,121,32,97,103,97,105,110,33>>
\* "No te escuche bien. Can you say that again?"
msg_not_heard == <<78,111,32,116,101,32,101,115,99,117,99,104,101,32,98,105,101,110,46,32,67,97,110,32,121,111,117,32,115,97,121,32,116,104,97,116,32,97,103,97,105,110,63>>
\* "Hola! Como estas?"
EmptyReplyFallback == <<72,111,108,97,33,32,67,111,109,111,32,101,115,116,97,115,63>>
\* "Hola! Que quieres decirme?"
BackendErrorFallback == <<72,111,108,97,33,32,81,117,101,32,113,117,105,101,114,101,115,32,100,101,99,105,114,109,101,63>>
\* "salir"
salir == <<115,97,108,105,114>>

\* the clean-up prefixes, in the order the loop tries them: "Osito:", "osito:", "**"
prefixes == << <<79,115,105,116,111,58>>, <<111,115,105,116,111,58>>, <<42,42>> >>

\* "Gracias por ver", "Suscribete", "subtitulos", "MBC", "Thank you for watching", "Subscribe"
hallucinations == {
    <<71,114,97,99,105,97,115,32,112,111,114,32,118,101,114>>,
    <<83,117,115,99,114,105,98,101,116,101>>,
    <<115,117,98,116,105,116,117,108,111,115>>,
    <<77,66,67>>,
    <<84,104,97,110,107,32,121,111,117,32,102,111,114,32,119,97,116,99,104,105,110,103>>,
    <<83,117,98,115,99,114,105,98,101>> }

\* the two languages transcribe accepts
AllowedLanguages == {"en", "es"}

\* the exception classes transcribe's except clause names
TranscribeCaught == {"RuntimeError", "ValueError", "KeyError"}

(***************************************************************************)
(* Python str primitives.                                                  *)
(***************************************************************************)
\* str.isspace / regex \s on one codepoint
IsSpace(c) ==
    \/ c \in 9..13
    \/ c \in 28..32
    \/ c \in {133, 160, 5760, 8232, 8233, 8239, 8287, 12288}
    \/ c \in 8192..8202

RECURSIVE LStrip(_)
LStrip(s) ==
    IF s = <<>> THEN s
    ELSE IF IsSpace(Head(s)) THEN LStrip(Tail(s)) ELSE s

RECURSIVE RStrip(_)
RStrip(s) ==
    IF s = <<>> THEN s
    ELSE IF IsSpace(s[Len(s)]) THEN RStrip(SubSeq(s, 1, Len(s) - 1)) ELSE s

\* str.strip()
Strip(s) == RStrip(LStrip(s))

\* str.startswith(p)
StartsWith(s, p) == Len(s) >= Len(p) /\ SubSeq(s, 1, Len(p)) = p

\* str.lower() on one codepoint: A-Z and the Latin-1 capitals
LowerChar(c) ==
    IF c \in 65..90 \/ (c \in 192..222 /\ c # 215) THEN c + 32 ELSE c

\* str.lower()
Lower(s) == [i \in 1..Len(s) |-> LowerChar(s[i])]

\* the Python test `sub in s`
Contains(s, sub) ==
    \E i \in 0..(Len(s) - Len(sub)) : SubSeq(s, i + 1, i + Len(sub)) = sub

\* str.replace(old, "") : left to right, non overlapping
RECURSIVE RemoveAll(_, _)
RemoveAll(s, old) ==
    IF s = <<>> THEN s
    ELSE IF StartsWith(s, old) THEN RemoveAll(SubSeq(s, Len(old) + 1, Len(s)), old)
    ELSE <<Head(s)>> \o RemoveAll(Tail(s), old)

\* re.sub(r'\s+', ' ', s) : every maximal run of whitespace becomes one space
RECURSIVE CollapseSpaces(_)
CollapseSpaces(s) ==
    IF s = <<>> THEN s
    ELSE IF IsSpace(Head(s)) THEN <<32>> \o CollapseSpaces(LStrip(s))
    ELSE <<Head(s)>> \o CollapseSpaces(Tail(s))

(***************************************************************************)
(* Response clean-up.                                                      *)
(***************************************************************************)
\* the character class of emoji_pattern
IsEmoji(c) ==
    \/ c \in 128512..128591
    \/ c \in 127744..128511
    \/ c \in 128640..128767
    \/ c \in 127456..127487
    \/ c \in 9986..10160
    \/ c \in 9410..127569
    \/ c \in 129280..129535
    \/ c \in 129536..129647
    \/ c \in 129648..129791
    \/ c \in 9728..9983

strip_emojis(t) == Strip(SelectSeq(t, LAMBDA c : ~IsEmoji(c)))

\* one pass of the loop body of `for prefix in [...]`
StripPrefix(t, prefix) ==
    IF StartsWith(t, prefix)
    THEN Strip(SubSeq(t, Len(prefix) + 1, Len(t)))
    ELSE t

\* the whole `for prefix in ["Osito:", "osito:", "**"]` loop: each prefix is tried once, in order
StripPrefixes(t) ==
    StripPrefix(StripPrefix(StripPrefix(t, prefixes[1]), prefixes[2]), prefixes[3])

\* sanitize as it would be with only replace("**", ""), which leaves a single asterisk
sanitize_KeepsSingleStar(content) ==
    LET stripped == StripPrefixes(Strip(content))
        unstarred == RemoveAll(stripped, <<42,42>>)
        spaced == Strip(CollapseSpaces(strip_emojis(unstarred)))
    IN  IF spaced = <<>> THEN EmptyReplyFallback ELSE spaced

\* the clean-up generate_response applies to the backend's reply text
sanitize(content) ==
    LET stripped == StripPrefixes(Strip(content))
        unstarred == RemoveAll(RemoveAll(stripped, <<42,42>>), <<42>>)
        spaced == Strip(CollapseSpaces(strip_emojis(unstarred)))
    IN  IF spaced = <<>> THEN EmptyReplyFallback ELSE spaced

\* generate_response as it would be with `return None` in the except branch
generate_response_ReturnsNone(reply) ==
    IF reply.ok THEN sanitize(reply.content) ELSE None

\* generate_response: reply is the outcome of ollama.chat,
\* [ok |-> TRUE, content |-> text] or [ok |-> FALSE, content |-> None] when it raised
generate_response(reply) ==
    IF reply.ok THEN sanitize(reply.content) ELSE BackendErrorFallback

(***************************************************************************)
(* Speech to text.                                                         *)
(***************************************************************************)
\* IsHallucination as it would be without the two .lower() calls
IsHallucination_CaseSensitive(t) ==
    \E h \in hallucinations : Contains(t, h) /\ Len(t) < 40

\* IsHallucination as it would be without the length condition
IsHallucination_NoLengthBound(t) ==
    \E h \in hallucinations : Contains(Lower(t), Lower(h))

\* the hallucination filter: some phrase occurs, ignoring case, in a text under 40 characters
IsHallucination(t) ==
    \E h \in hallucinations : Contains(Lower(t), Lower(h)) /\ Len(t) < 40

\* what the except clause of transcribe does with an exception of class exc:
\* raised is the class that leaves transcribe, "none" when it returns
TranscribeExcept(exc, called) ==
    IF exc \in TranscribeCaught
    THEN [raised |-> "none", text |-> None, status |-> "error", called |-> called]
    ELSE [raised |-> exc, text |-> None, status |-> "raised", called |-> called]

\* transcribe as it would be with the language check after the transcription call
transcribe_GateAfterCall(det, asr) ==
    IF det.raises # "none" THEN TranscribeExcept(det.raises, FALSE)
    ELSE IF asr.raises # "none" THEN TranscribeExcept(asr.raises, TRUE)
    ELSE IF det.lang \notin AllowedLanguages
    THEN [raised |-> "none", text |-> None, status |-> "unsupported_language", called |-> TRUE]
    ELSE LET t == Strip(asr.text)
         IN  IF IsHallucination(t) \/ t = <<>> \/ Len(t) < 2
             THEN [raised |-> "none", text |-> None, status |-> "no_speech", called |-> TRUE]
             ELSE [raised |-> "none", text |-> t, status |-> det.lang, called |-> TRUE]

\* transcribe as it would be without the `not text or len(text) < 2` check
transcribe_NoMinLength(det, asr) ==
    IF det.raises # "none" THEN TranscribeExcept(det.raises, FALSE)
    ELSE IF det.lang \notin AllowedLanguages
    THEN [raised |-> "none", text |-> None, status |-> "unsupported_language", called |-> FALSE]
    ELSE IF asr.raises # "none" THEN TranscribeExcept(asr.raises, TRUE)
    ELSE LET t == Strip(asr.text)
         IN  IF IsHallucination(t)
             THEN [raised |-> "none", text |-> None, status |-> "no_speech", called |-> TRUE]
             ELSE [raised |-> "none", text |-> t, status |-> det.lang, called |-> TRUE]

\* transcribe: det is the outcome of language detection, [raises |-> class or "none", lang |-> top language],
\* asr the outcome of whisper_model.transcribe, [raises |-> class or "none", text |-> result text];
\* called tells whether whisper_model.transcribe was invoked
transcribe(det, asr) ==
    IF det.raises # "none" THEN TranscribeExcept(det.raises, FALSE)
    ELSE IF det.lang \notin AllowedLanguages
    THEN [raised |-> "none", text |-> None, status |-> "unsupported_language", called |-> FALSE]
    ELSE IF asr.raises # "none" THEN TranscribeExcept(asr.raises, TRUE)
    ELSE LET t == Strip(asr.text)
         IN  IF IsHallucination(t)
             THEN [raised |-> "none", text |-> None, status |-> "no_speech", called |-> TRUE]
             ELSE IF t = <<>> \/ Len(t) < 2
             THEN [raised |-> "none", text |-> None, status |-> "no_speech", called |-> TRUE]
             ELSE [raised |-> "none", text |-> t, status |-> det.lang, called |-> TRUE]

(***************************************************************************)
(* Text to speech.                                                         *)
(***************************************************************************)
\* what can happen inside one speak call
SpeakOutcomes ==
    { "ok",                  \* piper exits 0, afplay exits 0
      "tempfile_failed",     \* NamedTemporaryFile raises OSError: no file is created
      "piper_not_found",     \* subprocess.run raises FileNotFoundError
      "piper_failed",        \* piper exits non-zero: RuntimeError
      "piper_timeout",       \* subprocess.TimeoutExpired after 30 s
      "afplay_failed",       \* check=True: CalledProcessError
      "afplay_timeout" }     \* subprocess.TimeoutExpired after 30 s

\* the class of the exception raised inside speak's try block, "none" when there is none
SpeakException(outcome) ==
    CASE outcome = "ok"              -> "none"
      [] outcome = "tempfile_failed" -> "OSError"
      [] outcome = "piper_not_found" -> "FileNotFoundError"
      [] outcome = "piper_failed"    -> "RuntimeError"
      [] outcome = "piper_timeout"   -> "TimeoutExpired"
      [] outcome = "afplay_failed"   -> "CalledProcessError"
      [] outcome = "afplay_timeout"  -> "TimeoutExpired"

\* SpeakCaught as it would be with `except (RuntimeError, OSError)` alone
SpeakCaught_NoSubprocessError == {"RuntimeError", "OSError", "FileNotFoundError"}

\* the classes the two except clauses of speak catch: TimeoutExpired, and RuntimeError,
\* OSError, SubprocessError with their subclasses FileNotFoundError, CalledProcessError
SpeakCaught ==
    {"TimeoutExpired", "RuntimeError", "OSError", "FileNotFoundError", "SubprocessError",
     "CalledProcessError"}

\* speak: files is the number of temporary files of earlier calls still on disk.
\* The file is made with delete=False and unlinked on the line after a successful afplay only.
\* A caught exception prints the text; raised is the class that leaves speak, "none" when
\* it returns.
speak(outcome, t, files) ==
    LET exc == SpeakException(outcome)
    IN  [ files  |-> IF outcome \in {"ok", "tempfile_failed"} THEN files ELSE files + 1,
          out    |-> [text |-> t,
                      mode |-> IF exc = "none" THEN "audio"
                               ELSE IF exc \in SpeakCaught THEN "text" ELSE "none"],
          raised |-> IF exc = "none" \/ exc \in SpeakCaught THEN "none" ELSE exc ]

(***************************************************************************)
(* The orchestrator: main_loop inside main.                                *)
(***************************************************************************)
VARIABLES
    pc,                    \* position of the single thread in main_loop
    conversation_history,  \* the list of {role, content} messages
    text, status,          \* what transcribe returned in the current turn
    request,               \* the messages of the ollama.chat call in progress
    reply,                 \* what ollama.chat gave in the current turn
    response,              \* what generate_response returned in the current turn
    out,                   \* the last thing speak put out, as audio or as printed text
    tmp_files,             \* temporary .wav files made by speak that are still on disk
    asr_called,            \* whisper_model.transcribe was invoked in the current turn
    llm_called,            \* generate_response has returned in the current turn
    exit_code,             \* -1 while the process runs, else the status it exited with
    raised,                \* the exception raised in the current turn: the stage and the class
    detected,              \* the top language detect_language gave in the current turn
    asr_text,              \* result["text"] of whisper_model.transcribe in the current turn
    typed,                 \* the line read at the current prompt, as typed
    spoken_in_turn,        \* speak calls that have returned since the current prompt
    latency_reported,      \* the latency line of the current turn has been printed
    turns,                 \* prompts answered so far
    history_at_prompt,     \* conversation_history as it was when the current prompt was shown
    appended               \* every message ever appended to conversation_history, in order

vars == <<pc, conversation_history, text, status, request, reply, response, out, tmp_files,
          asr_called, llm_called, exit_code, raised, detected, asr_text, typed,
          spoken_in_turn, latency_reported, turns, history_at_prompt, appended>>

NoException == [stage |-> "none", class |-> "none"]

NoReply == [ok |-> FALSE, content |-> None]

\* no ollama.chat call is in progress
NoRequest == <<>>

SpeakSites == {"speak_greeting", "speak_bye", "speak_unsupported", "speak_not_heard", "speak_response"}

\* the argument of the speak call at each call site of main_loop
SpeakText ==
    CASE pc = "speak_greeting"    -> greeting
      [] pc = "speak_bye"         -> bye
      [] pc = "speak_unsupported" -> msg_unsupported
      [] pc = "speak_not_heard"   -> msg_not_heard
      [] pc = "speak_response"    -> response

\* AfterSpeak as it would be without the `continue` after the "No te escuche" message
AfterSpeak_NoContinue ==
    CASE pc = "speak_greeting"    -> "input"
      [] pc = "speak_bye"         -> "exited"
      [] pc = "speak_unsupported" -> "input"
      [] pc = "speak_not_heard"   -> "append"
      [] pc = "speak_response"    -> "append"

\* AfterSpeak as it would be with the appends left out of the loop body
AfterSpeak_SkipsAppend ==
    CASE pc = "speak_greeting"    -> "input"
      [] pc = "speak_bye"         -> "exited"
      [] pc = "speak_unsupported" -> "input"
      [] pc = "speak_not_heard"   -> "input"
      [] pc = "speak_response"    -> "input"

\* where main_loop goes after the speak call at each call site
AfterSpeak ==
    CASE pc = "speak_greeting"    -> "input"
      [] pc = "speak_bye"         -> "exited"
      [] pc = "speak_unsupported" -> "input"
      [] pc = "speak_not_heard"   -> "input"
      [] pc = "speak_response"    -> "append"

\* Init as it would be if the greeting were stored as the first assistant message
Init_GreetingInHistory ==
    /\ pc = "speak_greeting"
    /\ conversation_history = << [role |-> "assistant", content |-> greeting] >>
    /\ text = None
    /\ status = "none"
    /\ request = NoRequest
    /\ reply = NoReply
    /\ response = None
    /\ out = [text |-> None, mode |-> "none"]
    /\ tmp_files = 0
    /\ asr_called = FALSE
    /\ llm_called = FALSE
    /\ exit_code = -1
    /\ raised = NoException
    /\ detected = "none"
    /\ asr_text = None
    /\ typed = None
    /\ spoken_in_turn = 0
    /\ latency_reported = FALSE
    /\ turns = 0
    /\ history_at_prompt = <<>>
    /\ appended = <<>>

\* main_loop up to the greeting: the history is empty and nothing has been read
Init ==
    /\ pc = "speak_greeting"
    /\ conversation_history = <<>>
    /\ text = None
    /\ status = "none"
    /\ request = NoRequest
    /\ reply = NoReply
    /\ response = None
    /\ out = [text |-> None, mode |-> "none"]
    /\ tmp_files = 0
    /\ asr_called = FALSE
    /\ llm_called = FALSE
    /\ exit_code = -1
    /\ raised = NoException
    /\ detected = "none"
    /\ asr_text = None
    /\ typed = None
    /\ spoken_in_turn = 0
    /\ latency_reported = FALSE
    /\ turns = 0
    /\ history_at_prompt = <<>>
    /\ appended = <<>>

\* one speak call of main_loop (greeting, farewell, fallback message or reply); after
\* speak(response) the latency line is printed; an exception that leaves speak reaches
\* main's `except Exception`, which exits with 1
Speak(outcome) ==
    /\ pc \in SpeakSites
    /\ outcome = "ok" \/ tmp_files < MaxLeaked
    /\ LET r == speak(outcome, SpeakText, tmp_files)
       IN  /\ tmp_files' = r.files
           /\ out' = r.out
           /\ IF r.raised = "none"
              THEN /\ pc' = AfterSpeak
                   /\ exit_code' = IF pc = "speak_bye" THEN 0 ELSE exit_code
                   /\ spoken_in_turn' = spoken_in_turn + 1
                   /\ latency_reported' = (latency_reported \/ pc = "speak_response")
                   /\ UNCHANGED raised
              ELSE /\ pc' = "exited"
                   /\ exit_code' = 1
                   /\ raised' = [stage |-> "speak", class |-> r.raised]
                   /\ UNCHANGED <<spoken_in_turn, latency_reported>>
    /\ UNCHANGED <<conversation_history, text, status, request, reply, response, asr_called,
                   llm_called, detected, asr_text, typed, turns, history_at_prompt, appended>>

\* ReadInput as it would be without .lower()
ReadInput_NoLower(line) ==
    /\ pc = "input"
    /\ pc' = IF Strip(line) = salir THEN "speak_bye" ELSE "record"
    /\ typed' = line
    /\ turns' = turns + 1
    /\ history_at_prompt' = conversation_history
    /\ asr_called' = FALSE
    /\ llm_called' = FALSE
    /\ raised' = NoException
    /\ detected' = "none"
    /\ asr_text' = None
    /\ spoken_in_turn' = 0
    /\ latency_reported' = FALSE
    /\ UNCHANGED <<conversation_history, text, status, request, reply, response, out,
                   tmp_files, exit_code, appended>>

\* input(...).strip().lower() and the exit check
ReadInput(line) ==
    /\ pc = "input"
    /\ pc' = IF Lower(Strip(line)) = salir THEN "speak_bye" ELSE "record"
    /\ typed' = line
    /\ turns' = turns + 1
    /\ history_at_prompt' = conversation_history
    /\ asr_called' = FALSE
    /\ llm_called' = FALSE
    /\ raised' = NoException
    /\ detected' = "none"
    /\ asr_text' = None
    /\ spoken_in_turn' = 0
    /\ latency_reported' = FALSE
    /\ UNCHANGED <<conversation_history, text, status, request, reply, response, out,
                   tmp_files, exit_code, appended>>

\* record_audio(): ok is FALSE when PyAudio cannot open or read the device (OSError).
\* Nothing in record_audio or main_loop catches it; main's `except Exception` exits with 1.
RecordAudio(ok) ==
    /\ pc = "record"
    /\ IF ok
       THEN /\ pc' = "transcribe"
            /\ UNCHANGED <<exit_code, raised>>
       ELSE /\ pc' = "exited"
            /\ exit_code' = 1
            /\ raised' = [stage |-> "record_audio", class |-> "OSError"]
    /\ UNCHANGED <<conversation_history, text, status, request, reply, response, out,
                   tmp_files, asr_called, llm_called, detected, asr_text, typed,
                   spoken_in_turn, latency_reported, turns, history_at_prompt, appended>>

\* text, status = transcribe(whisper_model, audio_data); an exception that leaves
\* transcribe reaches main's `except Exception`, which exits with 1
Transcribe(det, asr) ==
    /\ pc = "transcribe"
    /\ LET r == transcribe(det, asr)
       IN  /\ asr_called' = r.called
           /\ detected' = IF det.raises = "none" THEN det.lang ELSE "none"
           /\ asr_text' = IF r.called THEN asr.text ELSE None
           /\ raised' = IF det.raises # "none"
                         THEN [stage |-> "transcribe", class |-> det.raises]
                         ELSE IF r.called /\ asr.raises # "none"
                         THEN [stage |-> "transcribe", class |-> asr.raises]
                         ELSE NoException
           /\ IF r.raised = "none"
              THEN /\ text' = r.text
                   /\ status' = r.status
                   /\ pc' = "transcribed"
                   /\ UNCHANGED exit_code
              ELSE /\ pc' = "exited"
                   /\ exit_code' = 1
                   /\ UNCHANGED <<text, status>>
    /\ UNCHANGED <<conversation_history, request, reply, response, out, tmp_files,
                   llm_called, typed, spoken_in_turn, latency_reported, turns,
                   history_at_prompt, appended>>

\* if status == "unsupported_language": ... speak(msg); continue
FallbackUnsupported ==
    /\ pc = "transcribed"
    /\ status = "unsupported_language"
    /\ pc' = "speak_unsupported"
    /\ UNCHANGED <<conversation_history, text, status, request, reply, response, out,
                   tmp_files, asr_called, llm_called, exit_code, raised, detected, asr_text,
                   typed, spoken_in_turn, latency_reported, turns, history_at_prompt,
                   appended>>

\* FallbackNotHeard as it would be with a bare `continue`, the message not spoken
FallbackNotHeard_Silent ==
    /\ pc = "transcribed"
    /\ status # "unsupported_language"
    /\ text = None
    /\ pc' = "input"
    /\ UNCHANGED <<conversation_history, text, status, request, reply, response, out,
                   tmp_files, asr_called, llm_called, exit_code, raised, detected, asr_text,
                   typed, spoken_in_turn, latency_reported, turns, history_at_prompt,
                   appended>>

\* if text is None: ... speak(msg); continue
FallbackNotHeard ==
    /\ pc = "transcribed"
    /\ status # "unsupported_language"
    /\ text = None
    /\ pc' = "speak_not_heard"
    /\ UNCHANGED <<conversation_history, text, status, request, reply, response, out,
                   tmp_files, asr_called, llm_called, exit_code, raised, detected, asr_text,
                   typed, spoken_in_turn, latency_reported, turns, history_at_prompt,
                   appended>>

\* SYSTEM_PROMPT, the persona text of 595 characters: "You are Osito, a friendly teddy bear ..."
SYSTEM_PROMPT == <<
    89,111,117,32,97,114,101,32,79,115,105,116,111,44,32,97,32,102,114,105,101,110,100,108,
    121,32,116,101,100,100,121,32,98,101,97,114,32,116,101,97,99,104,105,110,103,32,83,112,
    97,110,105,115,104,32,116,111,32,52,45,121,101,97,114,45,111,108,100,32,99,104,105,108,
    100,114,101,110,46,10,10,83,84,82,73,67,84,32,82,85,76,69,83,58,10,45,32,82,
    101,115,112,111,110,100,32,79,78,76,89,32,105,110,32,115,105,109,112,108,101,32,83,112,
    97,110,105,115,104,32,40,110,101,118,101,114,32,69,110,103,108,105,115,104,41,10,45,32,
    77,97,120,105,109,117,109,32,56,32,119,111,114,100,115,32,112,101,114,32,114,101,115,112,
    111,110,115,101,10,45,32,69,110,100,32,119,105,116,104,32,79,78,69,32,115,105,109,112,
    108,101,32,113,117,101,115,116,105,111,110,10,45,32,85,115,101,32,118,111,99,97,98,117,
    108,97,114,121,32,97,32,52,45,121,101,97,114,45,111,108,100,32,117,110,100,101,114,115,
    116,97,110,100,115,10,45,32,78,69,86,69,82,32,117,115,101,32,101,109,111,106,105,115,
    10,45,32,82,101,109,101,109,98,101,114,32,116,104,101,32,99,104,105,108,100,39,115,32,
    110,97,109,101,32,97,110,100,32,117,115,101,32,105,116,10,10,71,79,79,68,32,69,88,
    65,77,80,76,69,83,58,10,45,32,34,72,111,108,97,32,65,110,97,33,32,84,101,32,
    103,117,115,116,97,110,32,108,111,115,32,112,101,114,114,111,115,63,34,10,45,32,34,65,
    122,117,108,33,32,77,117,121,32,108,105,110,100,111,33,32,84,101,32,103,117,115,116,97,
    32,114,111,106,111,63,34,10,45,32,34,85,110,111,44,32,100,111,115,44,32,116,114,101,
    115,33,32,80,117,101,100,101,115,32,99,111,110,116,97,114,63,34,10,45,32,34,84,101,
    110,103,111,32,104,97,109,98,114,101,32,116,97,109,98,105,101,110,33,32,84,101,32,103,
    117,115,116,97,32,112,105,122,122,97,63,34,10,10,84,79,80,73,67,83,58,32,99,111,
    108,111,114,115,44,32,97,110,105,109,97,108,115,44,32,102,111,111,100,44,32,110,117,109,
    98,101,114,115,32,49,45,53,44,32,102,97,109,105,108,121,46,10,70,79,82,66,73,68,
    68,69,78,58,32,101,109,111,106,105,115,44,32,108,111,110,103,32,115,101,110,116,101,110,
    99,101,115,44,32,100,105,102,102,105,99,117,108,116,32,119,111,114,100,115,44,32,69,110,
    103,108,105,115,104,32,105,110,32,114,101,115,112,111,110,115,101,115,46 >>
\* messages as it would be without messages.extend(conversation_history)
messages_NoHistory(user_text, history) ==
    << [role |-> "system", content |-> SYSTEM_PROMPT],
       [role |-> "user", content |-> user_text] >>

\* the list generate_response builds: the system prompt, the history, the new user text
messages(user_text, history) ==
    << [role |-> "system", content |-> SYSTEM_PROMPT] >>
        \o history
        \o << [role |-> "user", content |-> user_text] >>

\* generate_response(text, conversation_history) up to the ollama.chat call
AskBackend ==
    /\ pc = "transcribed"
    /\ status # "unsupported_language"
    /\ text # None
    /\ request' = messages(text, conversation_history)
    /\ pc' = "generate"
    /\ UNCHANGED <<conversation_history, text, status, reply, response, out, tmp_files,
                   asr_called, llm_called, exit_code, raised, detected, asr_text, typed,
                   spoken_in_turn, latency_reported, turns, history_at_prompt, appended>>

\* ollama.chat answers or raises, and generate_response returns
Generate(r) ==
    /\ pc = "generate"
    /\ reply' = r
    /\ response' = generate_response(r)
    /\ request' = NoRequest
    /\ llm_called' = TRUE
    /\ pc' = "speak_response"
    /\ UNCHANGED <<conversation_history, text, status, out, tmp_files, asr_called,
                   exit_code, raised, detected, asr_text, typed, spoken_in_turn,
                   latency_reported, turns, history_at_prompt, appended>>

\* Trim as it would be with the slice [:max_messages], which keeps the oldest messages
Trim_KeepsOldest(h) ==
    LET max_messages == MAX_HISTORY_TURNS * 2
    IN  IF Len(h) > max_messages THEN SubSeq(h, 1, max_messages) ELSE h

\* Trim as it would be with max_messages one short, which cuts through a pair
Trim_SplitsPair(h) ==
    LET max_messages == MAX_HISTORY_TURNS * 2 - 1
    IN  IF Len(h) > max_messages THEN SubSeq(h, Len(h) - max_messages + 1, Len(h)) ELSE h

\* conversation_history[-max_messages:] when the list is longer than max_messages
Trim(h) ==
    LET max_messages == MAX_HISTORY_TURNS * 2
    IN  IF Len(h) > max_messages THEN SubSeq(h, Len(h) - max_messages + 1, Len(h)) ELSE h

\* the two appends and the trim that end a successful turn
AppendAndTrim ==
    /\ pc = "append"
    /\ LET exchange == << [role |-> "user", content |-> text],
                          [role |-> "assistant", content |-> response] >>
       IN  /\ conversation_history' = Trim(conversation_history \o exchange)
           /\ appended' = appended \o exchange
    /\ pc' = "input"
    /\ UNCHANGED <<text, status, request, reply, response, out, tmp_files, asr_called,
                   llm_called, exit_code, raised, detected, asr_text, typed, spoken_in_turn,
                   latency_reported, turns, history_at_prompt>>

(***************************************************************************)
(* The environment: what the user, the microphone and the back ends give.  *)
(***************************************************************************)
\* lines typed at the prompt: "" (Enter), "salir", " SALIR "
InputLines == { <<>>, salir, <<32,83,65,76,73,82,32>> }

Languages == {"en", "es", "fr"}

\* classes of exceptions the transcription back end may raise
ExceptionClasses == {"RuntimeError", "ValueError", "KeyError", "TypeError"}

DetectOutcomes ==
    {[raises |-> "none", lang |-> l] : l \in Languages}
        \cup {[raises |-> e, lang |-> "none"] : e \in ExceptionClasses}

\* whisper_model.transcribe is reached only after an allowed language was detected
NotCalled == [raises |-> "none", text |-> None]

AsrOutcomesOf(det, texts) ==
    IF det.raises = "none" /\ det.lang \in AllowedLanguages
    THEN {[raises |-> "none", text |-> t] : t \in texts}
             \cup {[raises |-> e, text |-> None] : e \in ExceptionClasses}
    ELSE {NotCalled}

RepliesOf(texts) == {[ok |-> TRUE, content |-> t] : t \in texts} \cup {NoReply}

\* "**Osito:** Hola Ana! (U+1F60A) Te gusta el azul?"
MarkdownLabelReply == <<42,42,79,115,105,116,111,58,42,42,32,72,111,108,97,32,65,110,97,33,32,128522,32,84,101,32,103,117,115,116,97,32,101,108,32,97,122,117,108,63>>

\* results of whisper_model.transcribe explored in the loop:
\* " Hola, me llamo Ana", " MBC", ""
LoopTranscripts ==
    { <<32,72,111,108,97,44,32,109,101,32,108,108,97,109,111,32,65,110,97>>,
      <<32,77,66,67>>, <<>> }

\* reply texts of the backend explored in the loop: the one above and " Azul! *Muy* lindo!\n"
LoopReplies ==
    { MarkdownLabelReply,
      <<32,65,122,117,108,33,32,42,77,117,121,42,32,108,105,110,100,111,33,10>> }

RECURSIVE Flatten(_)
Flatten(ss) == IF ss = <<>> THEN <<>> ELSE Head(ss) \o Flatten(Tail(ss))

\* all concatenations of at most n pieces
Assembled(pieces, n) ==
    UNION { {Flatten(ss) : ss \in [1..k -> pieces]} : k \in 0..n }

\* "Osito:", "osito:", "**", "*", " ", U+1F60A, "x"
ReplyPieces ==
    { <<79,115,105,116,111,58>>, <<111,115,105,116,111,58>>, <<42,42>>, <<42>>, <<32>>,
      <<128522>>, <<120>> }

RawReplies == Assembled(ReplyPieces, MaxReplyPieces) \cup {MarkdownLabelReply}

\* " ", "a", "MBC", "subscribe", "Gracias por ver", "me gusta mucho jugar"
TranscriptPieces ==
    { <<32>>, <<97>>, <<77,66,67>>, <<115,117,98,115,99,114,105,98,101>>,
      <<71,114,97,99,105,97,115,32,112,111,114,32,118,101,114>>,
      <<109,101,32,103,117,115,116,97,32,109,117,99,104,111,32,106,117,103,97,114>> }

RawTranscripts == Assembled(TranscriptPieces, MaxTranscriptPieces)

(***************************************************************************)
(* Specifications.                                                         *)
(***************************************************************************)
\* the conversation loop, up to MaxTurns prompts
Next ==
    \/ \E o \in SpeakOutcomes : Speak(o)
    \/ \E line \in InputLines : turns < MaxTurns /\ ReadInput(line)
    \/ \E ok \in BOOLEAN : RecordAudio(ok)
    \/ \E det \in DetectOutcomes : \E asr \in AsrOutcomesOf(det, LoopTranscripts) : Transcribe(det, asr)
    \/ FallbackUnsupported
    \/ FallbackNotHeard
    \/ AskBackend
    \/ \E r \in RepliesOf(LoopReplies) : Generate(r)
    \/ AppendAndTrim

Spec == Init /\ [][Next]_vars

\* one turn of the loop, over every raw reply of RawReplies
NextSanitize ==
    \/ \E o \in SpeakOutcomes : Speak(o)
    \/ turns < 1 /\ ReadInput(<<>>)
    \/ RecordAudio(TRUE)
    \/ Transcribe([raises |-> "none", lang |-> "es"], [raises |-> "none", text |-> <<65,122,117,108>>])
    \/ AskBackend
    \/ \E r \in RepliesOf(RawReplies) : Generate(r)
    \/ AppendAndTrim

SpecSanitize == Init /\ [][NextSanitize]_vars

\* one turn of the loop, over every raw transcript of RawTranscripts
NextTranscribe ==
    \/ \E o \in SpeakOutcomes : Speak(o)
    \/ \E line \in {<<>>, <<120>>} : turns < 1 /\ ReadInput(line)
    \/ RecordAudio(TRUE)
    \/ \E det \in DetectOutcomes : \E asr \in AsrOutcomesOf(det, RawTranscripts) : Transcribe(det, asr)
    \/ FallbackUnsupported
    \/ FallbackNotHeard
    \/ AskBackend
    \/ Generate(NoReply)
    \/ AppendAndTrim

SpecTranscribe == Init /\ [][NextTranscribe]_vars

(***************************************************************************)
(* Properties.                                                             *)
(***************************************************************************)
Min(a, b) == IF a < b THEN a ELSE b

\* the last n elements of a sequence
LastN(q, n) == SubSeq(q, Len(q) - n + 1, Len(q))

\* C1: in every state (the history changes only in the append-and-trim step, so this
\* is the state after each such step) conversation_history has at most
\* 2 * MAX_HISTORY_TURNS = 8 entries and is exactly the last min(8, n) of the n messages
\* ever appended, in the order they were appended.
C1_HistoryBoundedFifo ==
    /\ Len(conversation_history) <= 8
    /\ Len(conversation_history) = Min(Len(appended), 8)
    /\ conversation_history = LastN(appended, Len(conversation_history))

\* C1 witness: a fifth exchange has been appended and the oldest pair evicted, after a
\* run whose replies differ, so that keeping the wrong end of the list would show
C1_Witness ==
    /\ pc = "input"
    /\ Len(appended) = 10
    /\ Len(conversation_history) = 8
    /\ appended[2] # appended[4]
    /\ appended[2] # appended[10]
    /\ conversation_history[1] = appended[3]

Rejections == {"unsupported_language", "no_speech", "error"}

FallbackSites == {"speak_unsupported", "speak_not_heard"}

\* C2, the states of a rejected turn: while the fallback message is pending, the turn
\* was a rejection, the history is what it was at the prompt and generate_response was
\* not called
C2_RejectedState ==
    pc \in FallbackSites =>
        /\ text = None
        /\ status \in Rejections
        /\ conversation_history = history_at_prompt
        /\ ~llm_called

\* C2, the steps of a rejected turn: a rejection goes to its fallback message, and the
\* step that speaks it puts out that message, leaves the history as at the prompt, calls
\* no generation and returns to the prompt
C2_RejectedStep ==
    /\ (pc = "transcribed" /\ status \in Rejections) =>
           /\ pc' = (IF status = "unsupported_language" THEN "speak_unsupported"
                                                        ELSE "speak_not_heard")
           /\ conversation_history' = history_at_prompt
           /\ ~llm_called'
    /\ pc \in FallbackSites =>
           /\ pc' = "input"
           /\ out'.text = (IF status = "unsupported_language" THEN msg_unsupported
                                                              ELSE msg_not_heard)
           /\ conversation_history' = history_at_prompt
           /\ ~llm_called'

\* C2: for every turn in which transcribe returns a rejection (unsupported_language,
\* no_speech or error), main_loop speaks the fallback message, does not call
\* generate_response, leaves conversation_history as it was before the turn and
\* returns to awaiting input.
C2_RejectedTurnLeavesHistory == [](C2_RejectedState) /\ [][C2_RejectedStep]_vars

\* C2 witness: back at the prompt after a turn rejected with "error", fallback put out,
\* with a non-empty history untouched
C2_Witness ==
    /\ pc = "input"
    /\ status = "error"
    /\ text = None
    /\ out.text = msg_not_heard
    /\ ~llm_called
    /\ Len(conversation_history) >= 2
    /\ conversation_history = history_at_prompt

\* C3 (the claim as stated): whenever an exception of any class was raised inside
\* transcribe, transcribe returned (None, "error") and the process did not exit.
C3_TranscribeNeverPropagates ==
    raised.stage = "transcribe" =>
        /\ pc # "exited"
        /\ exit_code = -1
        /\ text = None
        /\ status = "error"

\* C4 (the claim as stated): when record_audio fails, the process does not exit: the
\* loop is at a fallback message or back at the prompt.
C4_CaptureFailureAbortsTurnOnly ==
    raised.stage = "record_audio" =>
        /\ pc \in FallbackSites \cup {"input"}
        /\ exit_code = -1

\* C5 (the claim as stated): after any sequence of speak calls no temporary file
\* created by speak remains.
C5_NoTempFileRemains == tmp_files = 0

\* C6 (the claim as stated): the clean-up is idempotent: applied to a reply it has
\* produced, it returns that reply unchanged.
C6_SanitizeIdempotent ==
    (llm_called /\ reply.ok) => sanitize(response) = response

\* "Hola Ana! Te gusta el azul?"
ExpectedCleanReply == <<72,111,108,97,32,65,110,97,33,32,84,101,32,103,117,115,116,97,32,101,108,32,97,122,117,108,63>>

\* C7 (the claim as stated): the raw reply "**Osito:** Hola Ana! (U+1F60A) Te gusta el
\* azul?" is cleaned to exactly "Hola Ana! Te gusta el azul?", which is what is spoken
\* and what the turn appends after the user text.
C7_MarkdownLabelStripped ==
    (llm_called /\ reply = [ok |-> TRUE, content |-> MarkdownLabelReply]) =>
        /\ response = ExpectedCleanReply
        /\ pc = "append" => out.text = ExpectedCleanReply
        /\ pc = "input" =>
               LastN(conversation_history, 2) =
                   << [role |-> "user", content |-> text],
                      [role |-> "assistant", content |-> ExpectedCleanReply] >>

\* a text that is not empty and holds no asterisk and no codepoint of the emoji ranges
Clean(t) ==
    /\ t # <<>>
    /\ t # None
    /\ \A i \in 1..Len(t) :
           /\ t[i] # 42
           /\ ~(\/ t[i] \in 9410..127569
                \/ t[i] \in 127744..128767
                \/ t[i] \in 129280..129791)

\* C8: whatever the backend gives (any raw reply text, or a failure), the text
\* generate_response returns is not empty and holds no asterisk and no codepoint of
\* the emoji ranges, and so does every assistant message in conversation_history.
C8_ResponseClean ==
    /\ llm_called => Clean(response)
    /\ \A i \in 1..Len(conversation_history) :
           conversation_history[i].role = "assistant" =>
               Clean(conversation_history[i].content)

\* C8 witness: a reply holding asterisks and an emoji went through the clean-up, came
\* out as something other than the fallbacks, and is stored as the assistant message
C8_Witness ==
    /\ pc = "input"
    /\ reply.ok
    /\ \E i \in 1..Len(reply.content) : reply.content[i] = 42
    /\ \E i \in 1..Len(reply.content) : reply.content[i] = 128522
    /\ response \notin {EmptyReplyFallback, BackendErrorFallback}
    /\ Len(conversation_history) = 2
    /\ conversation_history[2] = [role |-> "assistant", content |-> response]

\* C9: whenever the detected top language is neither "en" nor "es", transcribe returns
\* (None, "unsupported_language") and whisper_model.transcribe is not invoked in that
\* attempt.
C9_UnsupportedLanguageGate ==
    (detected \notin {"none", "en", "es"}) =>
        /\ pc # "exited"
        /\ text = None
        /\ status = "unsupported_language"
        /\ ~asr_called
        /\ asr_text = None

\* C9 witness: French was detected and the turn is at its fallback message
C9_Witness ==
    /\ detected = "fr"
    /\ pc = "speak_unsupported"
    /\ status = "unsupported_language"
    /\ ~asr_called

\* some hallucination phrase occurs in t, ignoring case
HasPhrase(t) == \E h \in hallucinations : Contains(Lower(t), Lower(h))

\* C10: for an allowed detected language, a transcript that is, once trimmed, empty or
\* shorter than 2 characters, or shorter than 40 characters and holding a hallucination
\* phrase in any letter case, makes transcribe return (None, "no_speech").
C10_NoSpeechRejection ==
    (detected \in {"en", "es"} /\ asr_called /\ asr_text # None) =>
        LET t == Strip(asr_text)
        IN  (Len(t) < 2 \/ (Len(t) < 40 /\ HasPhrase(t))) =>
                /\ text = None
                /\ status = "no_speech"
                /\ pc # "exited"

\* C10 witness: a transcript of 30 to 39 characters holding "subscribe" in lower case
\* was rejected as no_speech
C10_Witness ==
    /\ pc = "speak_not_heard"
    /\ detected = "en"
    /\ asr_text # None
    /\ Len(Strip(asr_text)) \in 30..39
    /\ Contains(asr_text, <<115,117,98,115,99,114,105,98,101>>)
    /\ status = "no_speech"

\* C10 witness, second case: a one-character transcript was rejected as no_speech
C10_WitnessShort ==
    /\ pc = "speak_not_heard"
    /\ asr_text # None
    /\ Len(Strip(asr_text)) = 1
    /\ status = "no_speech"

\* the user and assistant messages of the current turn
Exchange(reply_text) ==
    << [role |-> "user", content |-> text], [role |-> "assistant", content |-> reply_text] >>

\* C11, the states after a backend error: generate_response returned the fixed sentence
\* "Hola! Que quieres decirme?", the process runs on, the sentence is what is put out
\* and the turn ends with its two messages appended
C11_RecoveredState ==
    (llm_called /\ ~reply.ok) =>
        /\ response = BackendErrorFallback
        /\ exit_code = -1
        /\ pc \in {"speak_response", "append", "input"}
        /\ pc \in {"append", "input"} => out.text = BackendErrorFallback
        /\ pc = "input" => LastN(conversation_history, 2) = Exchange(BackendErrorFallback)

\* C11, the step of the backend call: whatever the call does, generate_response returns
\* and its result goes to speak
C11_BackendStep == pc = "generate" => pc' = "speak_response"

\* C11: any error of the ollama.chat call is caught inside generate_response, which
\* returns the fixed fallback sentence; the turn speaks it and completes as a
\* successful turn, and the process is not aborted.
C11_BackendErrorRecovered == [](C11_RecoveredState) /\ [][C11_BackendStep]_vars

\* C11 witness: back at the prompt after a second successful turn whose backend call
\* failed, the fallback stored as the assistant message
C11_Witness ==
    /\ pc = "input"
    /\ llm_called
    /\ ~reply.ok
    /\ Len(conversation_history) >= 4
    /\ conversation_history[Len(conversation_history)].content = BackendErrorFallback
    /\ exit_code = -1

ExitTyped == typed # None /\ Lower(Strip(typed)) = <<115,97,108,105,114>>

\* C13, the states of the exit iteration: only the farewell is pending or spoken; no
\* capture, transcription or generation took place and the history is as at the prompt
C13_ExitState ==
    ExitTyped =>
        /\ pc \in {"speak_bye", "exited"}
        /\ conversation_history = history_at_prompt
        /\ ~asr_called
        /\ ~llm_called
        /\ detected = "none"
        /\ asr_text = None
        /\ request = NoRequest
        /\ raised = NoException
        /\ pc = "exited" => (out.text = bye /\ exit_code = 0 /\ spoken_in_turn = 1)

\* C13, the terminal state: once exited the loop takes no further step
C13_ExitStep == pc = "exited" => FALSE

\* C13: when the line read at the prompt is the exit command, the orchestrator speaks
\* the farewell and exits without capture, transcription or generation in that
\* iteration and without changing the history, and performs no further turn.
C13_ExitCommand == [](C13_ExitState) /\ [][C13_ExitStep]_vars

\* C13 witness: " SALIR " was typed after at least one successful turn and the loop
\* has ended with the farewell
C13_Witness ==
    /\ pc = "exited"
    /\ exit_code = 0
    /\ typed = <<32,83,65,76,73,82,32>>
    /\ out.text = bye
    /\ Len(conversation_history) >= 2

C15_GreetingNotInHistory ==
    /\ turns = 0 =>
           /\ pc \in {"speak_greeting", "input"}
           /\ typed = None
           /\ conversation_history = <<>>
           /\ pc = "input" => out.text = greeting
    /\ \A i \in 1..Len(conversation_history) : conversation_history[i].content # greeting
    /\ (pc = "generate" /\ appended = <<>>) =>
           request = << [role |-> "system", content |-> SYSTEM_PROMPT],
                        [role |-> "user", content |-> text] >>

\* C15 witness: the backend call of the first successful turn, which follows a
\* rejected turn
C15_Witness ==
    /\ pc = "generate"
    /\ appended = <<>>
    /\ turns = 2
    /\ Len(request) = 2

\* what is left of h after the append of two messages and the trim to 8
WithExchange(h, reply_text) ==
    LET all == h \o Exchange(reply_text)
    IN  LastN(all, Min(Len(all), 8))

\* C16 (the claim as stated): when speech of the reply starts, the two messages of the
\* turn have been appended and the history trimmed.
C16_AppendBeforeSpeak ==
    pc = "speak_response" =>
        conversation_history = WithExchange(history_at_prompt, response)

\* C16 as amended: speech of the reply comes first; while it is pending and when it has
\* returned the history is still as at the prompt, and the two messages are appended and
\* the history trimmed before the next prompt.
C16_SpeakBeforeAppend ==
    /\ pc = "speak_response" => conversation_history = history_at_prompt
    /\ pc = "append" =>
           /\ conversation_history = history_at_prompt
           /\ out.text = response
           /\ spoken_in_turn = 1
    /\ (pc = "input" /\ llm_called) =>
           conversation_history = WithExchange(history_at_prompt, response)

\* C16 witness: at the prompt after a successful turn that started with a full history
C16_Witness ==
    /\ pc = "input"
    /\ llm_called
    /\ Len(history_at_prompt) = 8
    /\ conversation_history # history_at_prompt
    /\ out.text = response

\* C17, the states: the history has even length and its roles alternate from "user";
\* when the exchange is about to be stored, the user text is the trimmed transcript
\* and the reply is what speak has put out
C17_PairedState ==
    /\ Len(conversation_history) % 2 = 0
    /\ \A i \in 1..Len(conversation_history) :
           conversation_history[i].role = (IF i % 2 = 1 THEN "user" ELSE "assistant")
    /\ pc = "append" =>
           /\ text # None
           /\ text = Strip(asr_text)
           /\ out.text = response

\* C17, the storing step: the last pair becomes (transcript, reply put out) and what
\* precedes it is the end of the previous history, cut at a pair boundary
C17_PairedStep ==
    pc = "append" =>
        LET n == Len(conversation_history')
        IN  /\ n >= 2
            /\ conversation_history'[n - 1] = [role |-> "user", content |-> Strip(asr_text)]
            /\ conversation_history'[n] = [role |-> "assistant", content |-> out.text]
            /\ SubSeq(conversation_history', 1, n - 2) = LastN(conversation_history, n - 2)
            /\ (Len(conversation_history) - (n - 2)) % 2 = 0

\* C17: at every loop boundary the history has even length and alternates user,
\* assistant from a user message; trimming never splits a pair; each stored pair is the
\* recognized transcript and the reply spoken in one successful turn.
C17_PairsAlternate == [](C17_PairedState) /\ [][C17_PairedStep]_vars

\* C17 witness: a pair has been evicted and the history starts with the user message
\* of the second exchange
C17_Witness ==
    /\ pc = "input"
    /\ Len(appended) = 10
    /\ Len(conversation_history) = 8
    /\ conversation_history[1].role = "user"
    /\ conversation_history[2] = appended[4]
    /\ conversation_history[2] # conversation_history[4]

\* C18, the state of the backend call: the request is one system message with the
\* persona prompt, then the history entry by entry, then the user text
C18_RequestState ==
    /\ \A i \in 1..Len(conversation_history) : conversation_history[i].role # "system"
    /\ pc = "generate" =>
           /\ Len(request) = Len(conversation_history) + 2
           /\ Len(request) <= 10
           /\ request[1] = [role |-> "system", content |-> SYSTEM_PROMPT]
           /\ \A i \in 1..Len(conversation_history) : request[i + 1] = conversation_history[i]
           /\ request[Len(request)] = [role |-> "user", content |-> text]
           /\ \A i \in 2..Len(request) : request[i].role # "system"

\* C18, the steps of generate_response: they leave the history alone
C18_RequestStep ==
    pc \in {"transcribed", "generate"} => conversation_history' = conversation_history

\* C18: the request generate_response sends is the system message, then the history in
\* order, then the new user text (len(history) + 2 messages, at most 10); the history
\* holds no system message and generate_response does not modify it.
C18_RequestAssembly == [](C18_RequestState) /\ [][C18_RequestStep]_vars

\* C18 witness: a backend call with a full history, ten messages in the request
C18_Witness ==
    /\ pc = "generate"
    /\ Len(conversation_history) = 8
    /\ Len(request) = 10
    /\ request[2] = conversation_history[1]
    /\ request[3] # request[5]

\* C19: what transcribe has returned is one of the two variants: a text of trimmed
\* length at least 2 with the language "en" or "es", or None with one of the three
\* rejection reasons.
C19_OneVariant ==
    status # "none" =>
        \/ /\ text # None
           /\ Len(Strip(text)) >= 2
           /\ status \in {"en", "es"}
        \/ /\ text = None
           /\ status \in {"unsupported_language", "no_speech", "error"}

\* C19 witness: a transcript of exactly two characters was returned with its language
C19_Witness ==
    /\ pc = "transcribed"
    /\ text # None
    /\ Len(text) = 2
    /\ status = "en"

\* C19 witness, second variant: None was returned with the reason "error"
C19_WitnessRejected ==
    /\ pc = "transcribed"
    /\ text = None
    /\ status = "error"

\* C20: for an allowed detected language, a transcript whose trimmed length is 40 or
\* more is returned as (text, language), whether or not it holds a hallucination phrase.
C20_LongTranscriptKept ==
    (detected \in {"en", "es"} /\ asr_called /\ asr_text # None
         /\ Len(Strip(asr_text)) >= 40) =>
        /\ text = Strip(asr_text)
        /\ status = detected
        /\ pc # "exited"

\* C20 witness: a transcript of 40 characters or more that holds "MBC" was returned
C20_Witness ==
    /\ pc = "transcribed"
    /\ asr_text # None
    /\ Len(Strip(asr_text)) >= 40
    /\ Contains(asr_text, <<77,66,67>>)
    /\ text = Strip(asr_text)
    /\ status = "es"

====
